---- MODULE Spec2Model ----
(***************************************************************************)
(* Endpoint lifecycle manager: the cleanup utility (src/cleanup.py) and    *)
(* the deployment script (src/deploy_model.py) acting on one hosting       *)
(* platform account and one lifecycle record file.                         *)
(***************************************************************************)
EXTENDS Integers, Sequences, FiniteSets, TLC

\* ------------------------------------------------------------------ bounds
MaxEndpoints == 3    \* endpoints that exist before any run of the programs
MaxClock == 2        \* wall-clock seconds the model distinguishes
MaxSessions == 2     \* process runs of deploy_model.py
MaxCalls == 3        \* deploy_model calls a caller makes in one run
MaxBeyond == 2       \* endpoints an account holds beyond one page of the listing

\* --------------------------------------------------------- program constants
MaxResults == 50     \* page size passed to list_endpoints

\* ------------------------------------------------------------------- names
\* Endpoint names are strings; a name is modelled as the tuple of the parts
\* the f-string concatenates.
ManualNames == { <<"ep", i>> : i \in 1..MaxEndpoints }
NoName == << >>

GenName(timestamp) == <<"better-sql-agent", timestamp>>

AllNames == ManualNames \cup { GenName(t) : t \in 1..MaxClock }

\* EndpointStatus values that occur: "InService", "Failed", "Deleting".
Descriptor(n, s) == [EndpointName |-> n, EndpointStatus |-> s]

Range(s) == { s[i] : i \in DOMAIN s }

NamesOf(eps) == { eps[i].EndpointName : i \in DOMAIN eps }

NameSeq(eps) == [i \in DOMAIN eps |-> eps[i].EndpointName]

Min(a, b) == IF a < b THEN a ELSE b

\* ---------------------------------------------------------------- state
VARIABLES
    platform,       \* the account's endpoints, in the order the platform lists them
    configs,        \* names of the endpoint configs that exist on the platform
    file,           \* content of endpoint_info.json
    now,            \* wall clock, in seconds
    cop,            \* cleanup: operation running or last run
    cpc,            \* cleanup: position ("menu", "confirm", "loop", "exited")
    cconfirm,       \* cleanup: the confirm argument of delete_all_endpoints
    endpoints,      \* cleanup: local variable endpoints of delete_all_endpoints
    idx,            \* cleanup: position of the for loop in endpoints
    success_count,  \* cleanup: local variable success_count
    asked,          \* cleanup: input() was called by the operation
    confirmation,   \* cleanup: what the operator typed
    calls,          \* cleanup: platform requests issued by the operation, in order
    attempts,       \* cleanup: delete_endpoint invocations of the operation, in order
    info_file,      \* cleanup: the path given to delete_endpoint_from_file
    cret,           \* cleanup: boolean the operation returned
    dpc,            \* deploy: position of main() in the current process run
    session,        \* deploy: number of the current process run
    env,            \* deploy: environment of the run (INSTANCE_TYPE)
    tried,          \* deploy: identity sources __init__ went through, in order
    dcalls,         \* deploy: platform requests issued by the run, in order
    result,         \* deploy: what deploy_model returned
    wrote,          \* deploy: how the run's write of the record ended ("" = no write)
    named,          \* deploy: the deploy_model calls of the run: argument and name used
    costs,          \* cleanup: what the last estimate_costs computed and returned
    tested          \* test_manual.py: what the last run of test_endpoint did

cleanupVars == <<cop, cpc, cconfirm, endpoints, idx, success_count, asked,
                 confirmation, calls, attempts, info_file, cret>>
deployVars == <<dpc, session, env, tried, dcalls, result, wrote, named>>
vars == <<platform, configs, file, now, cleanupVars, deployVars, costs, tested>>

\* Before estimate_costs or test_endpoint has run.
NoCosts == [computed |-> FALSE, ret |-> 0, hourly |-> 0, daily |-> 0, monthly |-> 0]
NotTested == [name |-> NoName, source |-> "", crashed |-> FALSE, invocations |-> << >>]

\* ------------------------------------------------- the hosting platform
\* Faulty variant of ListEndpoints: the continuation tokens are followed to
\* the end of the account.
ListEndpoints_paged(p) == p

\* Response of list_endpoints(MaxResults=50): the first page, no more.
ListEndpoints(p) == SubSeq(p, 1, Min(Len(p), MaxResults))

\* delete_endpoint is accepted for an endpoint that exists and is not
\* already being deleted; anything else raises.
Deletable(p, name) ==
    \E i \in DOMAIN p : p[i].EndpointName = name /\ p[i].EndpointStatus # "Deleting"

RemoveName(p, name) == SelectSeq(p, LAMBDA d : d.EndpointName # name)

MarkDeleting(p, name) ==
    [i \in DOMAIN p |-> IF p[i].EndpointName = name
                         THEN Descriptor(name, "Deleting") ELSE p[i]]

\* The platform deletes asynchronously ("deletion initiated"): when the
\* request returns the endpoint is either already gone or still listed with
\* status Deleting.
AfterDeleteEndpoint(p, name, gone) ==
    IF gone THEN RemoveName(p, name) ELSE MarkDeleting(p, name)

DropConfig(c, name) == [n \in DOMAIN c \ {name} |-> c[n]]

Variant(type, count) == [InstanceType |-> type, InitialInstanceCount |-> count]

\* A production variant served without instances: it carries neither an
\* InstanceType nor an InitialInstanceCount.
ServerlessVariant == [ServerlessConfig |-> [MaxConcurrency |-> 1]]

\* Endpoints that exist before any run of these programs, and their configs.
ManualConfig(name) ==
    CASE name[2] % 3 = 0 -> << Variant("ml.p3.2xlarge", 1), ServerlessVariant >>
      [] name[2] % 2 = 1 -> << Variant("ml.g5.xlarge", 2) >>
      [] OTHER -> << Variant("ml.c5.large", 1), Variant("ml.g5.2xlarge", 1) >>

Request(api, name, ok) == [api |-> api, name |-> name, ok |-> ok]

\* ------------------------------------------------------ cleanup helpers
\* str.lower() on the characters the operator can type here.
LowerChar(c) ==
    CASE c = "Y" -> "y"
      [] c = "E" -> "e"
      [] c = "S" -> "s"
      [] c = "N" -> "n"
      [] c = "O" -> "o"
      [] OTHER -> c

Lower(s) == [i \in DOMAIN s |-> LowerChar(s[i])]

\* What the operator may type at the prompt, as character sequences.
Answers ==
    { <<"y", "e", "s">>, <<"Y", "E", "S">>, <<"Y", "e", "s">>, <<"y">>,
      <<"n", "o">>, << >>, <<"y", "e", "s", " ">> }

\* Faulty variant of IsConfirmed: everything but "no" counts as a confirmation.
IsConfirmed_anyButNo(answer) == Lower(answer) # <<"n", "o">>

\* confirmation.lower() != 'yes' cancels; this is its negation.
IsConfirmed(answer) == Lower(answer) = <<"y", "e", "s">>

\* Faulty variant of NothingToDelete: the emptiness check is missing.
NothingToDelete_never(eps) == FALSE

\* `if not endpoints:` in delete_all_endpoints
NothingToDelete(eps) == Len(eps) = 0

\* Faulty variant of CountAfter: the count ignores the return value.
CountAfter_always(count, deleted) == count + 1

\* `if self.delete_endpoint(...): success_count += 1`
CountAfter(count, deleted) == IF deleted THEN count + 1 ELSE count

\* Faulty variant of DeleteEndpointReturn: a failed config deletion fails the call.
DeleteEndpointReturn_both(endpointOk, configOk) == endpointOk /\ configOk

\* Return value of delete_endpoint: True once the endpoint deletion did not
\* raise, whatever happened to the config deletion.
DeleteEndpointReturn(endpointOk, configOk) == endpointOk

\* Faulty variant of DeleteEndpointRequests: the config goes first, whatever
\* becomes of the endpoint deletion.
DeleteEndpointRequests_configFirst(endpoint_name, delete_config, endpointOk, configOk) ==
    (IF delete_config
     THEN << Request("delete_endpoint_config", endpoint_name, configOk) >>
     ELSE << >>)
    \o << Request("delete_endpoint", endpoint_name, endpointOk) >>

\* Requests delete_endpoint(endpoint_name, delete_config) issues, in order.
DeleteEndpointRequests(endpoint_name, delete_config, endpointOk, configOk) ==
    << Request("delete_endpoint", endpoint_name, endpointOk) >>
    \o (IF endpointOk /\ delete_config
        THEN << Request("delete_endpoint_config", endpoint_name, configOk) >>
        ELSE << >>)

\* SageMakerCleanup.delete_endpoint as a step of the calling operation, which
\* has issued priorCalls and made priorAttempts so far. The outcomes of the
\* two platform requests are the platform's choice.
delete_endpoint(priorCalls, priorAttempts, endpoint_name, delete_config, endpointOk, configOk, gone) ==
    LET reqs == DeleteEndpointRequests(endpoint_name, delete_config, endpointOk, configOk)
        configDeleted == \E i \in DOMAIN reqs :
                            /\ reqs[i].api = "delete_endpoint_config"
                            /\ reqs[i].ok
        endpointDeleted == \E i \in DOMAIN reqs :
                            /\ reqs[i].api = "delete_endpoint"
                            /\ reqs[i].ok
    IN  /\ endpointOk => Deletable(platform, endpoint_name)
        /\ configOk => endpoint_name \in DOMAIN configs
        \* a request that is not issued has no outcome
        /\ gone => endpointOk
        /\ configOk => endpointOk /\ delete_config
        /\ platform' = IF endpointDeleted
                        THEN AfterDeleteEndpoint(platform, endpoint_name, gone)
                        ELSE platform
        /\ configs' = IF configDeleted THEN DropConfig(configs, endpoint_name) ELSE configs
        /\ calls' = priorCalls \o reqs
        /\ attempts' = Append(priorAttempts,
               [name |-> endpoint_name, delete_config |-> delete_config,
                ret |-> DeleteEndpointReturn(endpointOk, configOk)])

\* Return value of list_all_endpoints: the page, or [] when the request raised.
list_all_endpoints(ok) == IF ok THEN ListEndpoints(platform) ELSE << >>

\* ------------------------------------------------------ cost estimation
\* Money is counted in thousandths of a dollar, so that every rate of the
\* table and every product and sum of the estimate is an exact integer.
DefaultRate == 2000
HoursPerDay == 24
DaysPerMonth == 30

\* Faulty variant of Rate: the rows of ml.g5.xlarge and ml.g5.2xlarge are swapped.
Rate_swapped(instance_type) ==
    CASE instance_type = "ml.g5.xlarge" -> 1515
      [] instance_type = "ml.g5.2xlarge" -> 1408
      [] OTHER -> DefaultRate

\* instance_costs.get(instance_type, 2.0)
Rate(instance_type) ==
    CASE instance_type = "ml.g4dn.xlarge" -> 736
      [] instance_type = "ml.g4dn.2xlarge" -> 940
      [] instance_type = "ml.g4dn.4xlarge" -> 1505
      [] instance_type = "ml.g5.xlarge" -> 1408
      [] instance_type = "ml.g5.2xlarge" -> 1515
      [] instance_type = "ml.g5.4xlarge" -> 2030
      [] instance_type = "ml.g5.8xlarge" -> 3060
      [] instance_type = "ml.p3.2xlarge" -> 3825
      [] instance_type = "ml.p3.8xlarge" -> 14688
      [] instance_type = "ml.p3.16xlarge" -> 28152
      [] OTHER -> DefaultRate

\* variant['InstanceType'] and variant['InitialInstanceCount'] raise KeyError
\* on a variant without these keys.
Readable(variant) ==
    /\ "InstanceType" \in DOMAIN variant
    /\ "InitialInstanceCount" \in DOMAIN variant

\* Faulty variant of HourlyCost: the instance count is ignored.
HourlyCost_perType(variant) == Rate(variant.InstanceType)

\* hourly_cost of one variant
HourlyCost(variant) == Rate(variant.InstanceType) * variant.InitialInstanceCount

\* active_endpoints: the listed endpoints whose status is InService
ActiveEndpoints(eps) == SelectSeq(eps, LAMBDA ep : ep.EndpointStatus = "InService")

\* The loop over config_response['ProductionVariants'] from variant i on,
\* with total_hourly_cost = total so far: the first unreadable variant
\* raises and ends the loop, and what was added before it stays added.
RECURSIVE VariantsLoop(_, _, _)
VariantsLoop(variants, i, total) ==
    IF i > Len(variants) THEN total
    ELSE IF ~Readable(variants[i]) THEN total
    ELSE VariantsLoop(variants, i + 1, total + HourlyCost(variants[i]))

\* The loop over active_endpoints from endpoint i on; `failing` are the
\* names whose describe_endpoint_config raises.
RECURSIVE EndpointsLoop(_, _, _, _, _)
EndpointsLoop(active, i, total, cfgs, failing) ==
    IF i > Len(active) THEN total
    ELSE LET name == active[i].EndpointName IN
         IF name \in failing
         THEN EndpointsLoop(active, i + 1, total, cfgs, failing)
         ELSE EndpointsLoop(active, i + 1, VariantsLoop(cfgs[name], 1, total), cfgs, failing)

\* The describe_endpoint_config requests of the loop, in order.
DescribeRequests(active, failing) ==
    [i \in DOMAIN active |->
        Request("describe_endpoint_config", active[i].EndpointName,
                active[i].EndpointName \notin failing)]

\* What estimate_costs computes and returns, given the listing it obtained.
Estimate(eps, cfgs, failing) ==
    LET active == ActiveEndpoints(eps)
        total_hourly_cost == EndpointsLoop(active, 1, 0, cfgs, failing)
        daily_cost == total_hourly_cost * HoursPerDay
        monthly_cost == daily_cost * DaysPerMonth
    IN  IF active = << >>
        THEN [computed |-> FALSE, ret |-> 0, hourly |-> 0, daily |-> 0, monthly |-> 0]
        ELSE [computed |-> TRUE, ret |-> total_hourly_cost, hourly |-> total_hourly_cost,
              daily |-> daily_cost, monthly |-> monthly_cost]

\* ------------------------------------------------------- the record file
\* Python values the record holds: a str or None.
PyStr(x) == [py |-> "str", s |-> x]
PyNone == [py |-> "None", s |-> << >>]

Item(k, v) == [k |-> k, v |-> v]

\* JSON text, as its tokens.
Tok(t, x) == [t |-> t, s |-> x]

JsonEncode(v) == IF v.py = "None" THEN Tok("null", << >>) ELSE Tok("string", v.s)

JsonDecode(tok) == IF tok.t = "null" THEN PyNone ELSE PyStr(tok.s)

\* json.dump of a dict of str/None values
JsonDump(dict) ==
    LET member(i) == IF i % 2 = 1
                     THEN Tok("string", dict[(i + 1) \div 2].k)
                     ELSE JsonEncode(dict[i \div 2].v)
    IN  << Tok("{", << >>) >>
        \o [i \in 1..(2 * Len(dict)) |-> member(i)]
        \o << Tok("}", << >>) >>

\* json.load: [ok, type, value]; ok is FALSE when the text is not JSON
JsonLoad(text) ==
    LET n == Len(text)
        inner == (n - 2) \div 2
        wellFormedObject ==
            /\ n >= 2 /\ n % 2 = 0
            /\ text[1].t = "{" /\ text[n].t = "}"
            /\ \A i \in 2..(n - 1) :
                  IF i % 2 = 0 THEN text[i].t = "string"
                               ELSE text[i].t \in {"string", "null"}
    IN  IF wellFormedObject
        THEN [ok |-> TRUE, type |-> "dict",
              value |-> [j \in 1..inner |-> Item(text[2 * j].s, JsonDecode(text[2 * j + 1]))]]
        ELSE IF n = 2 /\ text[1].t = "[" /\ text[2].t = "]"
        THEN [ok |-> TRUE, type |-> "list", value |-> << >>]
        ELSE [ok |-> FALSE, type |-> "", value |-> << >>]

\* dict.get(key): the value of the last member with that key, else None
DictGet(dict, key) ==
    LET hits == { i \in DOMAIN dict : dict[i].k = key }
    IN  IF hits = {} THEN PyNone
        ELSE dict[CHOOSE i \in hits : \A j \in hits : j <= i].v

Truthy(v) == v.py = "str" /\ v.s # << >>

FileMissing == [kind |-> "missing", text |-> << >>]
FileLocked == [kind |-> "locked", text |-> << >>]
FileWith(text) == [kind |-> "file", text |-> text]

RecordPath == "endpoint_info.json"

\* Files the operator may name at the prompt besides the record itself.
OtherFiles ==
    [ missing |-> FileMissing,
      locked |-> FileLocked,
      garbage |-> FileWith(<< Tok("{", << >>), Tok("string", "endpoint_name") >>),
      list |-> FileWith(<< Tok("[", << >>), Tok("]", << >>) >>),
      nokey |-> FileWith(JsonDump(<< Item("region", PyStr(<<"us-east-1">>)) >>)),
      null |-> FileWith(JsonDump(<< Item("endpoint_name", PyNone) >>)),
      empty |-> FileWith(JsonDump(<< Item("endpoint_name", PyStr(<< >>)) >>)),
      manual |-> FileWith(JsonDump(<< Item("endpoint_name", PyStr(<<"ep", 1>>)) >>)) ]

Paths == {RecordPath} \cup DOMAIN OtherFiles

FileAt(path) == IF path = RecordPath THEN file ELSE OtherFiles[path]

\* Faulty variant of NameKey: the reader uses another key than the writer.
NameKey_camel == "endpointName"

\* The key delete_endpoint_from_file looks up in the record.
NameKey == "endpoint_name"

\* Faulty variant of ReadEndpointName: a file without a name falls back to a default endpoint.
ReadEndpointName_default(f) ==
    LET loaded == JsonLoad(f.text)
        nm == IF f.kind = "file" /\ loaded.ok /\ loaded.type = "dict"
              THEN DictGet(loaded.value, NameKey) ELSE PyNone
    IN  IF f.kind = "file" /\ ~Truthy(nm)
        THEN [usable |-> TRUE, name |-> <<"ep", 1>>]
        ELSE [usable |-> Truthy(nm), name |-> nm.s]

\* What delete_endpoint_from_file gets out of a file: [usable, name].
\* usable is FALSE when open() or json.load raised, when the document is not
\* an object (.get raises), or when endpoint_name is absent or falsy.
ReadEndpointName(f) ==
    IF f.kind # "file" THEN [usable |-> FALSE, name |-> NoName]
    ELSE LET loaded == JsonLoad(f.text) IN
         IF ~loaded.ok \/ loaded.type # "dict" THEN [usable |-> FALSE, name |-> NoName]
         ELSE LET endpoint_name == DictGet(loaded.value, NameKey) IN
              IF Truthy(endpoint_name)
              THEN [usable |-> TRUE, name |-> endpoint_name.s]
              ELSE [usable |-> FALSE, name |-> NoName]

\* ----------------------------------------------------- cleanup operations
\* Locals of an operation that has not run delete_all_endpoints' body.
NoLocals ==
    /\ endpoints' = << >>
    /\ idx' = 1
    /\ success_count' = 0
    /\ asked' = FALSE
    /\ confirmation' = << >>
    /\ cconfirm' = FALSE
    /\ info_file' = ""

\* menu option 1
ListAll ==
    /\ cpc = "menu"
    /\ \E ok \in BOOLEAN :
        /\ cop' = "list_all_endpoints"
        /\ calls' = << Request("list_endpoints", NoName, ok) >>
        /\ endpoints' = list_all_endpoints(ok)
    /\ idx' = 1 /\ success_count' = 0 /\ asked' = FALSE
    /\ confirmation' = << >> /\ cconfirm' = FALSE
    /\ attempts' = << >>
    /\ info_file' = ""
    /\ cret' = FALSE
    /\ UNCHANGED <<cpc, platform, configs, file, now, deployVars, costs, tested>>

\* menu option 5; a config that does not exist cannot be described, and any
\* describe request may fail for reasons of its own.
EstimateCosts ==
    /\ cpc = "menu"
    /\ \E ok \in BOOLEAN, failing \in SUBSET NamesOf(platform) :
        LET eps == list_all_endpoints(ok)
            active == ActiveEndpoints(eps)
        IN  /\ failing \subseteq NamesOf(active)
            /\ \A n \in NamesOf(active) \ failing : n \in DOMAIN configs
            /\ endpoints' = eps
            /\ calls' = << Request("list_endpoints", NoName, ok) >>
                         \o DescribeRequests(active, failing)
            /\ costs' = Estimate(eps, configs, failing)
    /\ cop' = "estimate_costs"
    /\ idx' = 1 /\ success_count' = 0 /\ asked' = FALSE
    /\ confirmation' = << >> /\ cconfirm' = FALSE
    /\ attempts' = << >>
    /\ info_file' = ""
    /\ cret' = FALSE
    /\ UNCHANGED <<cpc, platform, configs, file, now, deployVars, tested>>

\* menu option 2 (and the public method, whose delete_config is a parameter)
DeleteOne ==
    /\ cpc = "menu"
    /\ \E endpoint_name \in AllNames, delete_config, endpointOk, configOk, gone \in BOOLEAN :
        /\ delete_endpoint(<< >>, << >>, endpoint_name, delete_config,
                           endpointOk, configOk, gone)
        /\ cret' = DeleteEndpointReturn(endpointOk, configOk)
    /\ cop' = "delete_endpoint"
    /\ NoLocals
    /\ UNCHANGED <<cpc, file, now, deployVars, costs, tested>>

\* Faulty variant of DeleteFromFile: the record is removed once the endpoint
\* it names has been deleted.
DeleteFromFile_unlink ==
    /\ cpc = "menu"
    /\ \E path \in Paths :
        LET rec == ReadEndpointName(FileAt(path)) IN
        /\ info_file' = path
        /\ IF rec.usable
           THEN \E endpointOk, configOk, gone \in BOOLEAN :
                  /\ delete_endpoint(<< >>, << >>, rec.name, TRUE,
                                     endpointOk, configOk, gone)
                  /\ cret' = DeleteEndpointReturn(endpointOk, configOk)
                  /\ file' = IF endpointOk /\ path = RecordPath THEN FileMissing ELSE file
           ELSE /\ calls' = << >>
                /\ attempts' = << >>
                /\ cret' = FALSE
                /\ UNCHANGED <<platform, configs, file>>
    /\ cop' = "delete_endpoint_from_file"
    /\ endpoints' = << >> /\ idx' = 1 /\ success_count' = 0 /\ asked' = FALSE
    /\ confirmation' = << >> /\ cconfirm' = FALSE
    /\ UNCHANGED <<cpc, now, deployVars, costs, tested>>

\* menu option 3
DeleteFromFile ==
    /\ cpc = "menu"
    /\ \E path \in Paths :
        LET rec == ReadEndpointName(FileAt(path)) IN
        /\ info_file' = path
        /\ IF rec.usable
           THEN \E endpointOk, configOk, gone \in BOOLEAN :
                  /\ delete_endpoint(<< >>, << >>, rec.name, TRUE,
                                     endpointOk, configOk, gone)
                  /\ cret' = DeleteEndpointReturn(endpointOk, configOk)
           ELSE /\ calls' = << >>
                /\ attempts' = << >>
                /\ cret' = FALSE
                /\ UNCHANGED <<platform, configs>>
    /\ cop' = "delete_endpoint_from_file"
    /\ endpoints' = << >> /\ idx' = 1 /\ success_count' = 0 /\ asked' = FALSE
    /\ confirmation' = << >> /\ cconfirm' = FALSE
    /\ UNCHANGED <<cpc, file, now, deployVars, costs, tested>>

\* delete_all_endpoints up to the prompt or the loop
DeleteAllBegin ==
    /\ cpc = "menu"
    /\ \E confirm, ok \in BOOLEAN :
        LET eps == list_all_endpoints(ok) IN
        /\ cop' = "delete_all_endpoints"
        /\ cconfirm' = confirm
        /\ calls' = << Request("list_endpoints", NoName, ok) >>
        /\ endpoints' = eps
        /\ IF NothingToDelete(eps)
           THEN /\ cpc' = "menu"
                /\ cret' = TRUE
                /\ asked' = FALSE
           ELSE /\ cpc' = IF confirm THEN "confirm" ELSE "loop"
                /\ cret' = FALSE
                /\ asked' = confirm
    /\ idx' = 1
    /\ success_count' = 0
    /\ confirmation' = << >>
    /\ attempts' = << >>
    /\ info_file' = ""
    /\ UNCHANGED <<platform, configs, file, now, deployVars, costs, tested>>

\* the operator answers input()
DeleteAllConfirm ==
    /\ cpc = "confirm"
    /\ \E answer \in Answers :
        /\ confirmation' = answer
        /\ IF IsConfirmed(answer)
           THEN cpc' = "loop" /\ cret' = cret
           ELSE cpc' = "menu" /\ cret' = FALSE
    /\ UNCHANGED <<cop, cconfirm, endpoints, idx, success_count, asked, calls,
                   attempts, info_file, platform, configs, file, now, deployVars, costs, tested>>

\* Faulty variant of DeleteAllAttempt: the loop stops at the first failed deletion.
DeleteAllAttempt_abort ==
    /\ cpc = "loop"
    /\ idx <= Len(endpoints)
    /\ \E endpointOk, configOk, gone \in BOOLEAN :
        /\ delete_endpoint(calls, attempts, endpoints[idx].EndpointName, TRUE,
                           endpointOk, configOk, gone)
        /\ success_count' =
              CountAfter(success_count, DeleteEndpointReturn(endpointOk, configOk))
        /\ idx' = IF DeleteEndpointReturn(endpointOk, configOk)
                  THEN idx + 1 ELSE Len(endpoints) + 1
    /\ UNCHANGED <<cop, cpc, cconfirm, endpoints, asked, confirmation, info_file, cret,
                   file, now, deployVars, costs, tested>>

\* one iteration of `for endpoint in endpoints`
DeleteAllAttempt ==
    /\ cpc = "loop"
    /\ idx <= Len(endpoints)
    /\ \E endpointOk, configOk, gone \in BOOLEAN :
        /\ delete_endpoint(calls, attempts, endpoints[idx].EndpointName, TRUE,
                           endpointOk, configOk, gone)
        /\ success_count' =
              CountAfter(success_count, DeleteEndpointReturn(endpointOk, configOk))
    /\ idx' = idx + 1
    /\ UNCHANGED <<cop, cpc, cconfirm, endpoints, asked, confirmation, info_file, cret,
                   file, now, deployVars, costs, tested>>

\* the loop is exhausted: report and return
DeleteAllReturn ==
    /\ cpc = "loop"
    /\ idx > Len(endpoints)
    /\ cret' = (success_count = Len(endpoints))
    /\ cpc' = "menu"
    /\ UNCHANGED <<cop, cconfirm, endpoints, idx, success_count, asked, confirmation,
                   calls, attempts, info_file, platform, configs, file, now, deployVars, costs, tested>>

\* ------------------------------------------------------ deploy_model.py
NoResult == [status |-> "none", endpoint_name |-> NoName, error |-> ""]

\* Faulty variant of SuccessResult: a failed smoke test fails the deployment.
SuccessResult_strict(endpoint_name, testOk) ==
    IF testOk
    THEN [status |-> "success", endpoint_name |-> endpoint_name, error |-> ""]
    ELSE [status |-> "failed", endpoint_name |-> NoName, error |-> "test failed"]

\* the dict deploy_model returns after the smoke test
SuccessResult(endpoint_name, testOk) ==
    [status |-> "success", endpoint_name |-> endpoint_name, error |-> ""]

\* the dict deploy_model returns from its except clause: str(e) is the message
FailedResult(e) == [status |-> "failed", endpoint_name |-> NoName, error |-> e.msg]

Exc(type, msg) == [type |-> type, msg |-> msg]

\* Exceptions huggingface_model.deploy can raise, given the platform and the
\* instance type; leavesFailed says the endpoint was created and reached Failed.
CreateErrors(p, name, instance_type) ==
    IF instance_type.py = "None"
    THEN { [e |-> Exc("ValueError", "instance type required"), leavesFailed |-> FALSE] }
    ELSE IF name \in NamesOf(p)
    THEN { [e |-> Exc("ClientError", "endpoint already exists"), leavesFailed |-> FALSE] }
    ELSE { [e |-> Exc("ClientError", "request failed"), leavesFailed |-> FALSE],
           [e |-> Exc("UnexpectedStatusException", "endpoint Failed"), leavesFailed |-> TRUE] }

CanCreate(p, name, instance_type) == instance_type.py = "str" /\ name \notin NamesOf(p)

\* The key main() writes the endpoint name under.
WriteKey == "endpoint_name"

\* the dict main() dumps to endpoint_info.json
RecordDict(res, environ, clock) ==
    << Item(WriteKey, PyStr(res.endpoint_name)),
       Item("instance_type", environ.INSTANCE_TYPE),
       Item("region", PyStr(<<"us-east-1">>)),
       Item("deployed_at", PyStr(<<"iso", clock>>)) >>

\* The instance type as the platform stores it in a config: a str value
\* holds its text as a one-part tuple.
TypeName(instance_type) == instance_type.s[1]

Environments ==
    { [INSTANCE_TYPE |-> PyNone], [INSTANCE_TYPE |-> PyStr(<<"ml.g5.xlarge">>)] }

Consulted(source, outcome) == [source |-> source, outcome |-> outcome]

\* How sagemaker.get_execution_role() can end: it returns the role, raises
\* ValueError (not running on the platform), or raises something else.
AmbientOutcomes == {"resolved", "unavailable", "raised"}

\* Values of os.getenv('SAGEMAKER_ROLE_NAME')
RoleNames == { PyNone, PyStr(<< >>), PyStr(<<"sagemaker-role">>) }

\* Faulty variant of ResolveIdentity: the named role is looked up first and
\* the execution role is asked for afterwards.
ResolveIdentity_namedFirst(ambient, role_name, lookupOk, promptOk) ==
    << Consulted("named", IF lookupOk THEN "resolved" ELSE "unavailable"),
       Consulted("ambient", ambient) >>

\* SageMakerDeployer.__init__ from the try on: the identity sources it
\* consults, in order, each with how it ended. Only ValueError sends the
\* execution role lookup on to the other sources; every exception of the
\* named lookup sends it on to the prompt; nothing catches what input()
\* raises.
ResolveIdentity(ambient, role_name, lookupOk, promptOk) ==
    LET prompt == Consulted("prompt", IF promptOk THEN "resolved" ELSE "raised") IN
    IF ambient # "unavailable"
    THEN << Consulted("ambient", ambient) >>
    ELSE IF Truthy(role_name)
    THEN IF lookupOk
         THEN << Consulted("ambient", ambient), Consulted("named", "resolved") >>
         ELSE << Consulted("ambient", ambient), Consulted("named", "unavailable"), prompt >>
    ELSE << Consulted("ambient", ambient), prompt >>

\* Did the constructor raise: its last source ended with an exception.
Raised(consulted) == consulted[Len(consulted)].outcome = "raised"

\* Ways SageMakerDeployer.__init__ can go.
Resolutions ==
    { ResolveIdentity(ambient, role_name, lookupOk, promptOk) :
        ambient \in AmbientOutcomes, role_name \in RoleNames,
        lookupOk \in BOOLEAN, promptOk \in BOOLEAN }

\* Faulty variant of EndpointNameFor: the caller's name is ignored.
EndpointNameFor_generated(endpoint_name, clock) == GenName(clock)

\* The name deploy_model works with: `if not endpoint_name` generates one
\* from the clock, an argument that is given (and not empty) is kept.
EndpointNameFor(endpoint_name, clock) ==
    IF endpoint_name = NoName THEN GenName(clock) ELSE endpoint_name

\* A process run of deploy_model.py starts: main() constructs the deployer.
NewRun ==
    /\ dpc \in {"idle", "done", "crashed"}
    /\ dpc # "idle" => session < MaxSessions
    /\ session' = IF dpc = "idle" THEN session ELSE session + 1
    /\ \E environ \in Environments, r \in Resolutions :
        /\ env' = environ
        /\ tried' = r
        /\ dpc' = IF Raised(r) THEN "crashed" ELSE "constructed"
    /\ dcalls' = << >>
    /\ result' = NoResult
    /\ wrote' = ""
    /\ named' = << >>
    /\ UNCHANGED <<platform, configs, file, now, cleanupVars, costs, tested>>

\* Faulty variant of DeployCreate: a failed creation goes on to the smoke test.
DeployCreate_goOn ==
    /\ dpc = "constructed"
    /\ LET endpoint_name == EndpointNameFor(NoName, now)
           instance_type == env.INSTANCE_TYPE
       IN  \/ /\ CanCreate(platform, endpoint_name, instance_type)
              /\ platform' = << Descriptor(endpoint_name, "InService") >> \o platform
              /\ configs' = (endpoint_name :> << Variant(TypeName(instance_type), 1) >>) @@ configs
              /\ dcalls' = Append(dcalls, Request("create_endpoint", endpoint_name, TRUE))
              /\ dpc' = "deployed"
              /\ result' = NoResult
           \/ \E f \in CreateErrors(platform, endpoint_name, instance_type) :
              /\ IF f.leavesFailed
                 THEN /\ platform' = << Descriptor(endpoint_name, "Failed") >> \o platform
                      /\ configs' = (endpoint_name :> << Variant(TypeName(instance_type), 1) >>) @@ configs
                 ELSE UNCHANGED <<platform, configs>>
              /\ dcalls' = Append(dcalls, Request("create_endpoint", endpoint_name, FALSE))
              /\ dpc' = "deployed"
              /\ result' = NoResult
    /\ UNCHANGED <<session, env, tried, wrote, named, file, now, cleanupVars, costs, tested>>

\* deploy_model up to the return of huggingface_model.deploy(wait=True)
DeployCreate ==
    /\ dpc = "constructed"
    /\ LET endpoint_name == EndpointNameFor(NoName, now)
           instance_type == env.INSTANCE_TYPE
       IN  \/ /\ CanCreate(platform, endpoint_name, instance_type)
              /\ platform' = << Descriptor(endpoint_name, "InService") >> \o platform
              /\ configs' = (endpoint_name :> << Variant(TypeName(instance_type), 1) >>) @@ configs
              /\ dcalls' = Append(dcalls, Request("create_endpoint", endpoint_name, TRUE))
              /\ dpc' = "deployed"
              /\ result' = NoResult
           \/ \E f \in CreateErrors(platform, endpoint_name, instance_type) :
              /\ IF f.leavesFailed
                 THEN /\ platform' = << Descriptor(endpoint_name, "Failed") >> \o platform
                      /\ configs' = (endpoint_name :> << Variant(TypeName(instance_type), 1) >>) @@ configs
                 ELSE UNCHANGED <<platform, configs>>
              /\ dcalls' = Append(dcalls, Request("create_endpoint", endpoint_name, FALSE))
              /\ dpc' = "returned"
              /\ result' = FailedResult(f.e)
    /\ UNCHANGED <<session, env, tried, wrote, named, file, now, cleanupVars, costs, tested>>

\* Can predictor.predict succeed: the endpoint must be in service.
Invocable(p, name) ==
    \E i \in DOMAIN p : p[i].EndpointName = name /\ p[i].EndpointStatus = "InService"

\* Requests of the smoke test block of deploy_model.
SmokeTestRequests(endpoint_name, testOk) ==
    << Request("invoke_endpoint", endpoint_name, testOk) >>

\* deploy_model from "Testing the endpoint..." to its return
DeploySmokeTest ==
    /\ dpc = "deployed"
    /\ LET endpoint_name == dcalls[Len(dcalls)].name IN
       \E testOk \in BOOLEAN :
        /\ testOk => Invocable(platform, endpoint_name)
        /\ dcalls' = dcalls \o SmokeTestRequests(endpoint_name, testOk)
        /\ result' = SuccessResult(endpoint_name, testOk)
    /\ dpc' = "returned"
    /\ UNCHANGED <<session, env, tried, wrote, named, platform, configs, file, now, cleanupVars, costs, tested>>

\* Names a caller passes as endpoint_name.
CallerNames == { <<"ep", 1>>, <<"ep", 2>> }

\* A caller other than main() holds the deployer and calls deploy_model,
\* with or without endpoint_name, as many times as it likes; each call runs
\* to its return.
DeployModel ==
    /\ dpc = "constructed"
    /\ Len(named) < MaxCalls
    /\ \E arg \in {NoName} \cup CallerNames :
        LET endpoint_name == EndpointNameFor(arg, now)
            instance_type == env.INSTANCE_TYPE
        IN  /\ named' = Append(named, [arg |-> arg, name |-> endpoint_name, at |-> now])
            /\ \/ \E testOk \in BOOLEAN :
                   /\ CanCreate(platform, endpoint_name, instance_type)
                   /\ platform' = << Descriptor(endpoint_name, "InService") >> \o platform
                   /\ configs' = (endpoint_name :> << Variant(TypeName(instance_type), 1) >>) @@ configs
                   /\ dcalls' = << Request("create_endpoint", endpoint_name, TRUE) >>
                                 \o SmokeTestRequests(endpoint_name, testOk)
                   /\ result' = SuccessResult(endpoint_name, testOk)
               \/ \E f \in CreateErrors(platform, endpoint_name, instance_type) :
                   /\ IF f.leavesFailed
                      THEN /\ platform' = << Descriptor(endpoint_name, "Failed") >> \o platform
                           /\ configs' = (endpoint_name :> << Variant(TypeName(instance_type), 1) >>) @@ configs
                      ELSE UNCHANGED <<platform, configs>>
                   /\ dcalls' = << Request("create_endpoint", endpoint_name, FALSE) >>
                   /\ result' = FailedResult(f.e)
    /\ UNCHANGED <<dpc, session, env, tried, wrote, file, now, cleanupVars, costs, tested>>

\* How `with open(...) as f: json.dump(...)` can end: done, open() raised
\* (the file is untouched), or the dump raised (the file was truncated).
WriteOutcomes == {"written", "open raised", "dump raised"}

\* Faulty variant of ShouldPersist: the record is saved whatever the status.
ShouldPersist_always(res) == TRUE

\* `if result["status"] == "success":` in main()
ShouldPersist(res) == res["status"] = "success"

\* main() after deploy_model returned: save the record when status is success.
\* Nothing catches an exception of the write: it ends the process.
MainPersist ==
    /\ dpc = "returned"
    /\ IF ShouldPersist(result)
       THEN \E w \in WriteOutcomes :
              /\ file' = CASE w = "written" ->
                                FileWith(JsonDump(RecordDict(result, env, now)))
                           [] w = "open raised" -> file
                           [] OTHER -> FileWith(<< >>)
              /\ wrote' = w
              /\ dpc' = IF w = "written" THEN "done" ELSE "crashed"
       ELSE /\ file' = file
            /\ wrote' = wrote
            /\ dpc' = "done"
    /\ UNCHANGED <<session, env, tried, dcalls, result, named, platform, configs, now, cleanupVars, costs, tested>>

\* ------------------------------------------------------- test_manual.py
\* Values of os.getenv('ENDPOINT_NAME') and what the operator types.
TestEnvironments == { PyNone, PyStr(<<"ep", 1>>) }
TypedNames == { <<"ep", 1>> }

HasKey(dict, key) == \E i \in DOMAIN dict : dict[i].k = key

\* test_endpoint up to the name it will test: from the environment, else
\* from endpoint_info.json, else (file not found only) from the operator.
\* Any other failure of the read is not caught and ends the run.
TestEndpointName(environ_name, f, typed) ==
    IF Truthy(environ_name)
    THEN [source |-> "env", name |-> environ_name, crashed |-> FALSE]
    ELSE IF f.kind = "missing"
    THEN [source |-> "input", name |-> PyStr(typed), crashed |-> FALSE]
    ELSE IF f.kind # "file"
    THEN [source |-> "file", name |-> PyNone, crashed |-> TRUE]
    ELSE LET info == JsonLoad(f.text) IN
         IF ~info.ok \/ info.type # "dict" \/ ~HasKey(info.value, "endpoint_name")
         THEN [source |-> "file", name |-> PyNone, crashed |-> TRUE]
         ELSE [source |-> "file", name |-> DictGet(info.value, "endpoint_name"),
               crashed |-> FALSE]

\* Number of entries of test_cases.
TestCases == 2

\* A run of test_manual.py: the name, then one invoke_endpoint per test
\* case, each in its own try.
TestEndpoint ==
    /\ \E environ_name \in TestEnvironments, typed \in TypedNames,
          oks \in [1..TestCases -> BOOLEAN] :
        LET got == TestEndpointName(environ_name, file, typed) IN
        /\ \A i \in 1..TestCases :
              oks[i] => /\ ~got.crashed
                        /\ got.name.py = "str"
                        /\ Invocable(platform, got.name.s)
        /\ tested' = [name |-> got.name.s, source |-> got.source,
                      crashed |-> got.crashed,
                      invocations |->
                          IF got.crashed THEN << >>
                          ELSE [i \in 1..TestCases |->
                                   Request("invoke_endpoint", got.name.s, oks[i])]]
    /\ UNCHANGED <<platform, configs, file, now, cleanupVars, deployVars, costs>>

\* ------------------------------------------------------------ environment
\* A second passes on the clock.
Tick ==
    /\ now < MaxClock
    /\ now' = now + 1
    /\ UNCHANGED <<platform, configs, file, cleanupVars, deployVars, costs, tested>>

\* The platform finishes a deletion it had accepted.
PlatformReap ==
    /\ \E i \in DOMAIN platform :
        /\ platform[i].EndpointStatus = "Deleting"
        /\ platform' = RemoveName(platform, platform[i].EndpointName)
    /\ UNCHANGED <<configs, file, now, cleanupVars, deployVars, costs, tested>>

\* Another process of the account (a second cleanup session, the console)
\* deletes an endpoint, with or without its config.
ExternalDelete ==
    /\ \E name \in NamesOf(platform), gone, withConfig \in BOOLEAN :
        /\ Deletable(platform, name)
        /\ platform' = AfterDeleteEndpoint(platform, name, gone)
        /\ configs' = IF withConfig /\ name \in DOMAIN configs
                       THEN DropConfig(configs, name) ELSE configs
    /\ UNCHANGED <<file, now, cleanupVars, deployVars, costs, tested>>

\* ---------------------------------------------------------- specification
\* Before the programs run the account holds some endpoints in service,
\* listed in a fixed order.
InitialPlatforms ==
    { [i \in 1..k |-> Descriptor(<<"ep", i>>, "InService")] : k \in 0..MaxEndpoints }

Start(p) ==
    /\ platform = p
    /\ configs = [n \in NamesOf(p) |-> ManualConfig(n)]
    /\ file = FileMissing
    /\ now = 1
    /\ cop = "none" /\ cpc = "menu" /\ cconfirm = FALSE
    /\ endpoints = << >> /\ idx = 1 /\ success_count = 0
    /\ asked = FALSE /\ confirmation = << >>
    /\ calls = << >> /\ attempts = << >> /\ info_file = "" /\ cret = FALSE
    /\ dpc = "idle" /\ session = 1 /\ env = [INSTANCE_TYPE |-> PyNone]
    /\ tried = << >> /\ dcalls = << >> /\ result = NoResult /\ wrote = ""
    /\ named = << >> /\ costs = NoCosts /\ tested = NotTested

Init == \E p \in InitialPlatforms : Start(p)

\* An account with no endpoint yet.
InitFresh == Start(<< >>)

\* A cleanup session: the menu loop of cleanup.py against the platform.
Next ==
    \/ ListAll
    \/ DeleteOne
    \/ DeleteFromFile
    \/ DeleteAllBegin
    \/ DeleteAllConfirm
    \/ DeleteAllAttempt
    \/ DeleteAllReturn
    \/ PlatformReap

Spec == Init /\ [][Next]_vars

\* The record a successful run of deploy_model.py at second 1 has written.
DeployedEnv == [INSTANCE_TYPE |-> PyStr(<<"ml.g5.xlarge">>)]
DeployedRecord ==
    FileWith(JsonDump(RecordDict(SuccessResult(GenName(1), TRUE), DeployedEnv, 1)))

\* The account after such a run: its endpoint is in service, alone or beside
\* one endpoint that was there before, and the record is on disk.
InitRecorded ==
    \E p \in InitialPlatforms :
        /\ Len(p) <= 1
        /\ platform = << Descriptor(GenName(1), "InService") >> \o p
        /\ configs = (GenName(1) :> << Variant(TypeName(DeployedEnv.INSTANCE_TYPE), 1) >>)
                        @@ [n \in NamesOf(p) |-> ManualConfig(n)]
        /\ file = DeployedRecord
        /\ now = 1
        /\ cop = "none" /\ cpc = "menu" /\ cconfirm = FALSE
        /\ endpoints = << >> /\ idx = 1 /\ success_count = 0
        /\ asked = FALSE /\ confirmation = << >>
        /\ calls = << >> /\ attempts = << >> /\ info_file = "" /\ cret = FALSE
        /\ dpc = "done" /\ session = 1 /\ env = DeployedEnv
        /\ tried = << Consulted("ambient", "resolved") >>
        /\ dcalls = << Request("create_endpoint", GenName(1), TRUE),
                       Request("invoke_endpoint", GenName(1), TRUE) >>
        /\ result = SuccessResult(GenName(1), TRUE) /\ wrote = "written"
        /\ named = << >> /\ costs = NoCosts /\ tested = NotTested

\* After a deployment: the cleanup session and runs of test_manual.py.
NextRecord ==
    \/ ListAll
    \/ DeleteOne
    \/ DeleteFromFile
    \/ DeleteAllBegin
    \/ DeleteAllConfirm
    \/ DeleteAllAttempt
    \/ DeleteAllReturn
    \/ EstimateCosts
    \/ TestEndpoint
    \/ PlatformReap

SpecRecord == InitRecorded /\ [][NextRecord]_vars

\* Accounts of about a page of endpoints and more, all in service.
LargePlatforms ==
    { [i \in 1..k |-> Descriptor(<<"ep", i>>, "InService")] :
        k \in (MaxResults - 1)..(MaxResults + MaxBeyond) }

InitLarge == \E p \in LargePlatforms : Start(p)

\* Requests of reqs that failed.
Failures(reqs) == { k \in DOMAIN reqs : ~reqs[k].ok }

\* One iteration of the bulk deletion on a platform in fair health: at most
\* one request of the whole operation fails, and an endpoint whose deletion
\* was accepted is gone when delete_endpoint returns.
DeleteAllAttemptFair ==
    /\ DeleteAllAttempt
    /\ Cardinality(Failures(calls')) <= 1
    /\ attempts'[Len(attempts')].ret =>
          endpoints[idx].EndpointName \notin NamesOf(platform')

\* Listings and bulk deletions on a large account.
NextPage ==
    \/ ListAll
    \/ DeleteAllBegin
    \/ DeleteAllConfirm
    \/ DeleteAllAttemptFair
    \/ DeleteAllReturn

SpecPage == InitLarge /\ [][NextPage]_vars

\* A cleanup session that lists, deletes single endpoints and estimates.
NextCost ==
    \/ ListAll
    \/ DeleteOne
    \/ EstimateCosts
    \/ PlatformReap

SpecCost == Init /\ [][NextCost]_vars

\* A bulk deletion while another process deletes endpoints of the account.
NextRace ==
    \/ DeleteAllBegin
    \/ DeleteAllConfirm
    \/ DeleteAllAttempt
    \/ DeleteAllReturn
    \/ ExternalDelete
    \/ PlatformReap

SpecRace == Init /\ [][NextRace]_vars

\* Process runs in which a caller calls deploy_model repeatedly.
NextCalls ==
    \/ NewRun
    \/ DeployModel
    \/ Tick

SpecCalls == InitFresh /\ [][NextCalls]_vars

\* Process runs of deploy_model.py, one after the other.
NextDeploy ==
    \/ NewRun
    \/ DeployCreate
    \/ DeploySmokeTest
    \/ MainPersist
    \/ Tick

SpecDeploy == InitFresh /\ [][NextDeploy]_vars

\* Deploy runs and, beside them, a cleanup session deleting from a record.
NextLifecycle ==
    \/ NewRun
    \/ DeployCreate
    \/ DeploySmokeTest
    \/ MainPersist
    \/ Tick
    \/ DeleteFromFile
    \/ PlatformReap

SpecLifecycle == InitFresh /\ [][NextLifecycle]_vars

\* ================================================================ claims
AttemptNames(a) == [i \in DOMAIN a |-> a[i].name]

IsDeletion(req) == req.api \in {"delete_endpoint", "delete_endpoint_config"}

NoDeletionIssued(c) == \A i \in DOMAIN c : ~IsDeletion(c[i])

\* the operator typed yes, in any mix of cases
TypedYes(answer) ==
    /\ Len(answer) = 3
    /\ answer[1] \in {"y", "Y"} /\ answer[2] \in {"e", "E"} /\ answer[3] \in {"s", "S"}

\* delete_all_endpoints got past the emptiness check and the confirmation gate
Proceeded ==
    /\ cop = "delete_all_endpoints"
    /\ Len(endpoints) > 0
    /\ ~cconfirm \/ TypedYes(confirmation)

\* C1: once delete_all_endpoints has a non-empty listing and the operator has
\* confirmed (or confirm=False), the delete_endpoint attempts follow the
\* listing: at every moment they are the listing's names up to the loop
\* position, and at return they are exactly the listing's names in listing
\* order, whichever earlier attempt failed.
C1_AttemptsFollowListing ==
    Proceeded =>
        /\ cpc \in {"loop", "menu"}
        /\ Len(attempts) <= Len(endpoints)
        /\ AttemptNames(attempts) = SubSeq(NameSeq(endpoints), 1, Len(attempts))
        /\ cpc = "menu" => AttemptNames(attempts) = NameSeq(endpoints)

\* C1 witness: three listed, confirmed with YES, the first deletion failed and
\* the two after it were still attempted and succeeded.
C1_Witness ==
    /\ Proceeded /\ cpc = "menu" /\ cconfirm
    /\ confirmation = <<"Y", "E", "S">>
    /\ Len(endpoints) = 3 /\ Len(attempts) = 3
    /\ ~attempts[1].ret /\ attempts[2].ret /\ attempts[3].ret

\* C2: when delete_all_endpoints proceeded to deletion and returned, its
\* success count is the number of its delete_endpoint calls that returned
\* true, and it returned true exactly when every listed endpoint's
\* delete_endpoint call returned true.
C2_CountAndResult ==
    (Proceeded /\ cpc = "menu") =>
        /\ success_count = Cardinality({ i \in DOMAIN attempts : attempts[i].ret })
        /\ cret <=> success_count = Len(endpoints)
        /\ cret <=> \A i \in DOMAIN endpoints :
                       \E j \in DOMAIN attempts :
                          /\ attempts[j].name = endpoints[i].EndpointName
                          /\ attempts[j].ret

\* C2 witness: three listed, one deletion failed: 2/3 and false.
C2_Witness ==
    /\ Proceeded /\ cpc = "menu"
    /\ Len(endpoints) = 3 /\ success_count = 2 /\ ~cret
    /\ attempts[1].ret /\ ~attempts[2].ret /\ attempts[3].ret

\* C3: delete_all_endpoints with confirm=True on a non-empty listing, and an
\* answer other than yes (in any case): no endpoint deletion and no config
\* deletion is issued, and once it has returned it has returned false.
C3_DeclinedDeletesNothing ==
    (cop = "delete_all_endpoints" /\ cconfirm /\ Len(endpoints) > 0
       /\ ~TypedYes(confirmation)) =>
        /\ NoDeletionIssued(calls)
        /\ attempts = << >>
        /\ cpc \in {"confirm", "menu"}
        /\ cpc = "menu" => ~cret

\* C3 witness: two listed, the operator typed "yes " with a trailing blank,
\* the call returned false.
C3_Witness ==
    /\ cop = "delete_all_endpoints" /\ cconfirm /\ cpc = "menu"
    /\ Len(endpoints) = 2
    /\ confirmation = <<"y", "e", "s", " ">>
    /\ ~cret /\ Len(calls) = 1

\* C4: when the listing succeeded and is empty, delete_all_endpoints has
\* returned true without prompting and without any deletion request, for
\* confirm=True and for confirm=False.
C4_EmptyIsTrivial ==
    (cop = "delete_all_endpoints" /\ calls[1].ok /\ Len(endpoints) = 0) =>
        /\ cpc = "menu" /\ cret
        /\ ~asked /\ confirmation = << >>
        /\ NoDeletionIssued(calls) /\ attempts = << >>

\* C4 witness: no endpoint exists, delete_all_endpoints(confirm=True) returned true.
C4_Witness ==
    /\ cop = "delete_all_endpoints" /\ cconfirm /\ cpc = "menu"
    /\ calls = << Request("list_endpoints", NoName, TRUE) >>
    /\ platform = << >> /\ endpoints = << >> /\ cret

\* A step in which delete_endpoint ran to its return.
DeleteEndpointStep ==
    /\ attempts' # << >>
    /\ \/ cop' = "delete_endpoint" /\ DeleteOne
       \/ cop' = "delete_all_endpoints" /\ DeleteAllAttempt
       \/ cop' = "delete_endpoint_from_file" /\ DeleteFromFile

LastDeleteRequest(c) ==
    c[CHOOSE i \in DOMAIN c :
        /\ c[i].api = "delete_endpoint"
        /\ \A j \in DOMAIN c : c[j].api = "delete_endpoint" => j <= i]

ReturnMatchesEndpointDeletion ==
    LET a == attempts'[Len(attempts')]
        r == LastDeleteRequest(calls')
    IN  a.name = r.name /\ a.ret = r.ok

\* C5 as claimed: delete_endpoint returns true iff the platform's endpoint
\* deletion succeeded, whatever the config deletion did, and when it returns
\* true the name is absent from a list_all_endpoints made right after.
C5_Original ==
    [][DeleteEndpointStep =>
        /\ ReturnMatchesEndpointDeletion
        /\ attempts'[Len(attempts')].ret =>
              attempts'[Len(attempts')].name \notin NamesOf(ListEndpoints(platform'))
      ]_vars

\* C5 as amended: delete_endpoint returns true iff the platform accepted the
\* endpoint deletion, whatever the config deletion did, and when it returns
\* true a list_all_endpoints made right after does not show the name in
\* service: the name is absent or listed with status Deleting.
C5_ReturnsEndpointOutcome ==
    [][DeleteEndpointStep =>
        /\ ReturnMatchesEndpointDeletion
        /\ attempts'[Len(attempts')].ret =>
              \A d \in Range(ListEndpoints(platform')) :
                 d.EndpointName = attempts'[Len(attempts')].name
                    => d.EndpointStatus = "Deleting"
      ]_vars

\* C5 witness: delete_endpoint returned true although its config deletion
\* failed, and the endpoint is still listed, as Deleting.
C5_Witness ==
    /\ cop = "delete_endpoint" /\ cret
    /\ Len(calls) = 2 /\ calls[1].ok /\ ~calls[2].ok
    /\ calls[2].api = "delete_endpoint_config"
    /\ Descriptor(attempts[1].name, "Deleting") \in Range(platform)

\* Paths whose file holds no usable record: missing, unreadable, not JSON,
\* not an object, or without a non-empty endpoint_name.
UnusablePaths == {"missing", "locked", "garbage", "list", "nokey", "null", "empty"}

NoUsableRecordAt(path) ==
    \/ path \in UnusablePaths
    \/ path = RecordPath /\ (file.kind # "file" \/ file.text = << >>)

\* C6: delete_endpoint_from_file on a file without a usable record has
\* returned false and has issued no request at all.
C6_NoRecordNoDeletion ==
    (cop = "delete_endpoint_from_file" /\ NoUsableRecordAt(info_file)) =>
        /\ cpc = "menu" /\ ~cret
        /\ calls = << >> /\ attempts = << >>

\* C6 witness: the file parses but holds a JSON list, not an object.
C6_Witness ==
    /\ cop = "delete_endpoint_from_file" /\ info_file = "list"
    /\ ~cret /\ calls = << >>
    /\ Len(platform) > 0

\* The name under which this run's endpoint creation succeeded.
CreationSucceeded ==
    /\ Len(dcalls) > 0
    /\ dcalls[1].api = "create_endpoint" /\ dcalls[1].ok

CreationFailed ==
    /\ Len(dcalls) > 0
    /\ dcalls[1].api = "create_endpoint" /\ ~dcalls[1].ok

CreatedName == dcalls[1].name

\* C7: when a deploy run has succeeded and written its record, a
\* delete_endpoint_from_file on endpoint_info.json in another session reads
\* that record and calls delete_endpoint exactly once, with the name of the
\* endpoint the run created.
C7_RecordRoundTrip ==
    [][(/\ dpc = "done" /\ wrote = "written" /\ CreationSucceeded
        /\ cop' = "delete_endpoint_from_file" /\ info_file' = RecordPath
        /\ DeleteFromFile) =>
          /\ Len(attempts') = 1
          /\ attempts'[1].name = CreatedName
          /\ calls'[1].api = "delete_endpoint" /\ calls'[1].name = CreatedName
      ]_vars

\* C7 witness: the run created better-sql-agent-2 and wrote the record; the
\* cleanup session then deleted that endpoint from the record.
C7_Witness ==
    /\ dpc = "done" /\ wrote = "written" /\ CreationSucceeded
    /\ CreatedName = GenName(2)
    /\ cop = "delete_endpoint_from_file" /\ info_file = RecordPath
    /\ attempts = << [name |-> GenName(2), delete_config |-> TRUE, ret |-> TRUE] >>
    /\ GenName(2) \notin NamesOf(platform)

\* C8 as claimed: when the endpoint was created and the write of the record
\* failed, the run still ends with main() returning the success result that
\* names the endpoint (no crash), and the run issued no deletion.
C8_WriteFailureStillSuccess ==
    (CreationSucceeded /\ wrote \in {"open raised", "dump raised"}) =>
        /\ dpc = "done"
        /\ result.status = "success" /\ result.endpoint_name = CreatedName
        /\ NoDeletionIssued(dcalls)

\* C9: once the endpoint creation has succeeded and deploy_model has returned,
\* the run has issued exactly one invoke_endpoint, on the created endpoint,
\* the result is success with that endpoint's name whether the invocation
\* succeeded or not, and nothing was rolled back: no deletion was issued and
\* the endpoint and its config still exist.
C9_SmokeTestNeverRollsBack ==
    (CreationSucceeded /\ dpc \in {"returned", "done", "crashed"}) =>
        /\ Len(dcalls) = 2
        /\ dcalls[2].api = "invoke_endpoint" /\ dcalls[2].name = CreatedName
        /\ result.status = "success" /\ result.endpoint_name = CreatedName
        /\ NoDeletionIssued(dcalls)
        /\ Descriptor(CreatedName, "InService") \in Range(platform)
        /\ CreatedName \in DOMAIN configs

\* C9 witness: the smoke test failed and the run ended with status success.
C9_Witness ==
    /\ CreationSucceeded /\ dpc = "done"
    /\ Len(dcalls) = 2 /\ ~dcalls[2].ok
    /\ result.status = "success" /\ wrote = "written"

\* Once the endpoint creation has failed: deploy_model returned the failed
\* result with the error's message, without an invoke_endpoint or a write.
C10_FailedState ==
    CreationFailed =>
        /\ dpc \in {"returned", "done"}
        /\ Len(dcalls) = 1
        /\ result.status = "failed" /\ result.endpoint_name = NoName
        /\ result.error \in
              { f.e.msg : f \in CreateErrors(<< >>, CreatedName, env.INSTANCE_TYPE) }
                 \cup {"endpoint already exists"}
        /\ env.INSTANCE_TYPE.py = "None" => result.error = "instance type required"
        /\ result.error = "endpoint Failed" =>
              Descriptor(CreatedName, "Failed") \in Range(platform)
        /\ wrote = ""

\* A failed run stays failed: until the next run starts, the result and the
\* record file do not change.
C10_FailedStays ==
    [][(CreationFailed /\ session' = session) =>
          /\ file' = file /\ result' = result /\ wrote' = ""
          /\ dpc' \in {"returned", "done"}
      ]_vars

\* C10: once the endpoint creation has failed, deploy_model has returned (not
\* raised) status failed with the message of the error, it issued no
\* invoke_endpoint, and the run never writes the record: until the next run
\* starts, the result and the record file stay as they are.
C10_CreationFailureAborts == []C10_FailedState /\ C10_FailedStays

\* C10 witness: the endpoint reached Failed; main() returned the failed
\* result and there is no record file.
C10_Witness ==
    /\ CreationFailed /\ dpc = "done"
    /\ result.status = "failed" /\ result.error = "endpoint Failed"
    /\ file = FileMissing

\* ----------------------------------------------------------- estimates
RECURSIVE SumSeq(_)
SumSeq(s) == IF s = << >> THEN 0 ELSE Head(s) + SumSeq(Tail(s))

\* Sum over the InService endpoints of eps and over the variants of their
\* configs of rate x count, in thousandths of a dollar.
ExpectedHourly(eps, cfgs) ==
    SumSeq([i \in DOMAIN eps |->
        IF eps[i].EndpointStatus = "InService"
        THEN LET variants == cfgs[eps[i].EndpointName] IN
             SumSeq([j \in DOMAIN variants |->
                 Rate(variants[j].InstanceType) * variants[j].InitialInstanceCount])
        ELSE 0])

EstimateStep == cop' = "estimate_costs" /\ EstimateCosts

\* Every config of an InService endpoint of eps was obtained and every
\* variant in it has an instance type and an instance count.
ConfigsRead(eps, cfgs, reqs) ==
    /\ \A k \in DOMAIN reqs : reqs[k].api = "describe_endpoint_config" => reqs[k].ok
    /\ \A i \in DOMAIN eps : eps[i].EndpointStatus = "InService" =>
          \A j \in DOMAIN cfgs[eps[i].EndpointName] :
              Readable(cfgs[eps[i].EndpointName][j])

\* C11: when estimate_costs obtained and read every config it asked for, it
\* returns the sum over the listed InService endpoints and over their
\* variants of rate x count, with the default rate 2.0 for a type outside
\* the table; endpoints in another status add nothing; and the daily figure
\* is the hourly one x 24, the monthly one the daily one x 30.
C11_EstimateIsSum ==
    [][(EstimateStep /\ ConfigsRead(endpoints', configs, calls')) =>
          /\ costs'.ret = ExpectedHourly(endpoints', configs)
          /\ costs'.computed =>
                /\ costs'.hourly = costs'.ret
                /\ costs'.daily = costs'.hourly * 24
                /\ costs'.monthly = costs'.daily * 30
      ]_vars

\* C11 witness: an estimate over one endpoint being deleted and one in
\* service whose config has a type outside the table: 2.0 + 1.515 an hour.
C11_Witness ==
    /\ cop = "estimate_costs" /\ costs.computed
    /\ Len(endpoints) = 2
    /\ endpoints[1].EndpointStatus = "Deleting"
    /\ endpoints[2] = Descriptor(<<"ep", 2>>, "InService")
    /\ \A k \in DOMAIN calls : calls[k].ok
    /\ costs.ret = 3515 /\ costs.daily = 84360 /\ costs.monthly = 2530800

\* The estimate just made found one InService endpoint, whose config it
\* obtained: a single variant of two ml.g5.xlarge instances.
OneG5XlargeTimesTwo(eps, cfgs, reqs) ==
    LET active == ActiveEndpoints(eps) IN
    /\ Len(active) = 1
    /\ \A k \in DOMAIN reqs : reqs[k].ok
    /\ cfgs[active[1].EndpointName] = << Variant("ml.g5.xlarge", 2) >>

\* C12 as stated: such an estimate is 1.515 x 2 = 3.03 an hour.
C12_Original ==
    [][(EstimateStep /\ OneG5XlargeTimesTwo(endpoints', configs, calls')) =>
          costs'.ret = 3030
      ]_vars

\* C12, amended: for a single InService endpoint whose config has one variant
\* with instance type ml.g5.xlarge and instance count 2, the estimated hourly
\* cost is 1.408 x 2 = 2.816 (1.515 is the rate of ml.g5.2xlarge).
C12_G5XlargeTimesTwo ==
    [][(EstimateStep /\ OneG5XlargeTimesTwo(endpoints', configs, calls')) =>
          /\ costs'.computed
          /\ costs'.ret = 2816
      ]_vars

\* C12 witness: the estimate over the single endpoint ep1, two ml.g5.xlarge.
C12_Witness ==
    /\ cop = "estimate_costs"
    /\ endpoints = << Descriptor(<<"ep", 1>>, "InService") >>
    /\ calls = << Request("list_endpoints", NoName, TRUE),
                  Request("describe_endpoint_config", <<"ep", 1>>, TRUE) >>
    /\ configs[<<"ep", 1>>] = << Variant("ml.g5.xlarge", 2) >>
    /\ costs.hourly = 2816

\* The describe_endpoint_config request for name, among reqs, succeeded.
Obtained(name, reqs) ==
    \E k \in DOMAIN reqs :
        /\ reqs[k].api = "describe_endpoint_config"
        /\ reqs[k].name = name /\ reqs[k].ok

\* The sum of C11 in which an endpoint whose config was not obtained, or
\* holds a variant that cannot be read, adds nothing at all.
ExpectedSkipping(eps, cfgs, reqs) ==
    SumSeq([i \in DOMAIN eps |->
        LET name == eps[i].EndpointName IN
        IF /\ eps[i].EndpointStatus = "InService"
           /\ Obtained(name, reqs)
           /\ \A j \in DOMAIN cfgs[name] : Readable(cfgs[name][j])
        THEN SumSeq([j \in DOMAIN cfgs[name] |->
                 Rate(cfgs[name][j].InstanceType) * cfgs[name][j].InitialInstanceCount])
        ELSE 0])

\* C13: an InService endpoint whose config could not be obtained or read
\* adds nothing to the total, none of its variants being counted, while the
\* other endpoints are estimated and the estimate itself is computed.
C13_UnreadableConfigAddsNothing ==
    [][(EstimateStep /\ ActiveEndpoints(endpoints') # << >>) =>
          /\ costs'.computed
          /\ costs'.ret = ExpectedSkipping(endpoints', configs, calls')
      ]_vars

\* -------------------------------------------------------------- listing
\* The operation under way began with a list_endpoints request that failed.
ListingFailed ==
    /\ calls # << >>
    /\ calls[1].api = "list_endpoints" /\ ~calls[1].ok

\* C14: a listing that failed is not taken for an empty one: the listing does
\* not come back as the empty sequence, and delete_all_endpoints over it
\* does not return true as if there had been nothing to delete.
C14_FailedListingIsNotEmpty ==
    ListingFailed =>
        /\ cop \in {"list_all_endpoints", "delete_all_endpoints"} => endpoints # << >>
        /\ ~(cop = "delete_all_endpoints" /\ cpc = "menu" /\ cret)

\* ----------------------------------------------------- concurrent deletion
\* C15: when the bulk deletion comes to a listed endpoint that another
\* process has deleted in the meantime, the not-found outcome is benign: the
\* loop goes on and the endpoint counts among the deleted ones, so that the
\* run can still return true.
C15_AlreadyGoneIsBenign ==
    [][(/\ cpc = "loop" /\ idx <= Len(endpoints)
        /\ endpoints[idx].EndpointName \notin NamesOf(platform)
        /\ idx' # idx
        /\ DeleteAllAttempt) =>
          /\ idx' = idx + 1
          /\ success_count' = success_count + 1
      ]_vars

\* ------------------------------------------------------- endpoint names
\* A caller-supplied endpoint_name is the name the call works with.
SuppliedNameKept ==
    \A i \in DOMAIN named : named[i].arg # NoName => named[i].name = named[i].arg

\* C16 as stated: the calls of a run that omit endpoint_name all generate
\* different names.
C16_Original ==
    /\ \A i, j \in DOMAIN named :
          (i < j /\ named[i].arg = NoName /\ named[j].arg = NoName) =>
              named[i].name # named[j].name
    /\ SuppliedNameKept

\* C16, amended: the generated name is the clock read to the second, so two
\* calls of a run that omit endpoint_name generate different names exactly
\* when they are made in different seconds; a caller-supplied name is used
\* unchanged.
C16_NamesDifferAcrossSeconds ==
    /\ \A i, j \in DOMAIN named :
          (i < j /\ named[i].arg = NoName /\ named[j].arg = NoName) =>
              (named[i].name # named[j].name <=> named[i].at # named[j].at)
    /\ SuppliedNameKept

\* C16 witness: a run made three calls: one without a name, one with the
\* name ep1, and a second later another one without a name.
C16_Witness ==
    /\ Len(named) = 3
    /\ named[1].arg = NoName /\ named[1].name = GenName(1)
    /\ named[2].arg = <<"ep", 1>> /\ named[2].name = <<"ep", 1>>
    /\ named[3].arg = NoName /\ named[3].name = GenName(2)

\* ------------------------------------------------------ config deletion
\* Positions in reqs of the endpoint deletion requests, in order: the i-th
\* one is the request of the i-th delete_endpoint call.
EndpointDeletions(reqs) ==
    SelectSeq([k \in DOMAIN reqs |-> k], LAMBDA k : reqs[k].api = "delete_endpoint")

ConfigDeletionAt(reqs, k) ==
    k \in DOMAIN reqs /\ reqs[k].api = "delete_endpoint_config"

\* C17: a config deletion request is issued only right after the endpoint
\* deletion request of the same delete_endpoint call, for the same name, has
\* succeeded, and only when the call's delete_config is true: a call whose
\* endpoint deletion failed, or whose delete_config is false, issues none.
C17_ConfigAfterEndpoint ==
    LET dels == EndpointDeletions(calls) IN
    /\ Len(dels) = Len(attempts)
    /\ \A k \in DOMAIN calls : ConfigDeletionAt(calls, k) =>
          /\ k > 1
          /\ calls[k - 1] = Request("delete_endpoint", calls[k].name, TRUE)
    /\ \A i \in DOMAIN attempts :
          /\ calls[dels[i]].name = attempts[i].name
          /\ (~calls[dels[i]].ok \/ ~attempts[i].delete_config) =>
                ~ConfigDeletionAt(calls, dels[i] + 1)

\* C17 witness: delete_endpoint(ep2) issued the endpoint deletion and then
\* the config deletion, which failed; an earlier call had deleted ep1 and
\* left its config in place.
C17_Witness ==
    /\ cop = "delete_endpoint"
    /\ attempts = << [name |-> <<"ep", 2>>, delete_config |-> TRUE, ret |-> TRUE] >>
    /\ calls = << Request("delete_endpoint", <<"ep", 2>>, TRUE),
                  Request("delete_endpoint_config", <<"ep", 2>>, FALSE) >>
    /\ <<"ep", 1>> \notin NamesOf(platform) /\ <<"ep", 1>> \in DOMAIN configs

\* ------------------------------------------------- writing the record
\* A step in which the record file changes or a write of it is attempted.
TouchesRecord == file' # file \/ (wrote' # wrote /\ wrote' # "")

\* C18: the record is written at most once in a deploy run and only after
\* deploy_model returned status success: a step that writes it, or tries
\* to, is taken by a run whose creation succeeded and which has not written
\* before; and a run whose creation failed leaves the record file as it was.
C18_RecordWrittenOnceAfterSuccess ==
    [][/\ TouchesRecord =>
            /\ dpc = "returned" /\ result.status = "success"
            /\ CreationSucceeded
            /\ wrote = "" /\ session' = session
       /\ (CreationFailed /\ session' = session) => file' = file
      ]_vars

\* C18 witness: the first run wrote the record of better-sql-agent-1; the
\* second run failed to create its endpoint and ended, and the record of
\* the first run is still there.
C18_Witness ==
    /\ session = 2 /\ dpc = "done"
    /\ CreationFailed /\ result.status = "failed" /\ wrote = ""
    /\ ReadEndpointName(file) = [usable |-> TRUE, name |-> GenName(1)]

\* ---------------------------------------------------- identity resolution
Sources(consulted) == [i \in DOMAIN consulted |-> consulted[i].source]

C20_RecordUntouched ==
    /\ file = DeployedRecord
    /\ ReadEndpointName(file) = [usable |-> TRUE, name |-> GenName(1)]

\* C20 witness: the endpoint of the record was deleted from the record and
\* is gone; a run of test_manual.py then took its name from the record and
\* both its invocations failed; the record is still there.
C20_Witness ==
    /\ cop = "delete_endpoint_from_file" /\ info_file = RecordPath /\ cret
    /\ GenName(1) \notin NamesOf(platform)
    /\ tested.source = "file" /\ tested.name = GenName(1)
    /\ Len(tested.invocations) = 2
    /\ \A i \in DOMAIN tested.invocations : ~tested.invocations[i].ok
    /\ file.kind = "file"

\* ------------------------------------------------------ the listing page
\* The list_endpoints requests among reqs.
ListRequests(reqs) == { k \in DOMAIN reqs : reqs[k].api = "list_endpoints" }

\* A listing is never longer than 50, an operation lists once, and a bulk
\* deletion attempts listed endpoints only; when it returns true, none of
\* the listed endpoints is left, whatever else the account holds.
C21_OnePageOnly ==
    /\ Len(endpoints) <= 50
    /\ Cardinality(ListRequests(calls)) <= 1
    /\ Proceeded =>
          /\ Len(attempts) <= 50
          /\ Range(AttemptNames(attempts)) \subseteq NamesOf(endpoints)
          /\ (cpc = "menu" /\ cret) =>
                NamesOf(platform) \cap NamesOf(endpoints) = {}

\* A listing that succeeded is the first 50 endpoints of the account, or
\* all of them when they are fewer.
C21_ListingIsFirstPage ==
    [][(/\ cop' \in {"list_all_endpoints", "delete_all_endpoints"}
        /\ calls' = << Request("list_endpoints", NoName, TRUE) >>) =>
          /\ Len(endpoints') = IF Len(platform) < 50 THEN Len(platform) ELSE 50
          /\ \A i \in DOMAIN endpoints' : endpoints'[i] = platform[i]
      ]_vars

\* C21: list_all_endpoints returns the first page of at most 50 endpoints
\* and asks for no further page, so delete_all_endpoints attempts the
\* endpoints of that page only and judges its success by them alone: it
\* returns true with the endpoints beyond the page still in the account.
C21_FirstPageOnly == []C21_OnePageOnly /\ C21_ListingIsFirstPage

\* C21 witness: on an account of 52 endpoints the bulk deletion made 50
\* attempts and returned true, and ep51 and ep52 are still in service.
C21_Witness ==
    /\ Proceeded /\ cpc = "menu" /\ cret
    /\ Len(endpoints) = 50 /\ Len(attempts) = 50
    /\ platform = << Descriptor(<<"ep", 51>>, "InService"),
                     Descriptor(<<"ep", 52>>, "InService") >>

====
